---- MODULE Spec2Model ----
(***************************************************************************)
(* Shape-level model of BitRegressionModel.py: the Demucs constructor and  *)
(* one call of Demucs.forward, together with the pure length arithmetic of *)
(* Demucs.valid_length.  Tensors are modelled by their shapes (a sequence  *)
(* of dimensions, <<batch, channels, time>> or <<batch, n>>); an empty     *)
(* sequence is the result of an operation that raised.                     *)
(***************************************************************************)
EXTENDS Integers, Sequences, FiniteSets, TLC

\* ------------------------------------------------------------------------
\* Bounds of the explored configurations and inputs
\* ------------------------------------------------------------------------
MaxDepth == 2
MaxKernel == 4
MaxStride == 3
MaxLen == 14
MaxHidden == 3
MaxGrowth == 2
MaxHiddenCap == 2
MaxBatch == 3

\* the literal 40960 of the output heads
HeadSpan == 40960

\* ------------------------------------------------------------------------
\* Arithmetic helpers
\* ------------------------------------------------------------------------
Max(a, b) == IF a >= b THEN a ELSE b
Min(a, b) == IF a <= b THEN a ELSE b

\* math.ceil(a / b) for b > 0
CeilDiv(a, b) == -((-a) \div b)

\* ------------------------------------------------------------------------
\* Demucs.valid_length
\* ------------------------------------------------------------------------
RECURSIVE FloorEncLen(_, _, _, _)
\* depth encoder length steps floor((n - k) / s) + 1, floored at 1
FloorEncLen(n, d, k, s) ==
    IF d = 0 THEN n
    ELSE FloorEncLen(Max(((n - k) \div s) + 1, 1), d - 1, k, s)

RECURSIVE EncLen(_, _, _, _)
\* first loop of valid_length: depth times ceil((length - k) / s) + 1, max 1
EncLen(n, d, k, s) ==
    IF d = 0 THEN n ELSE EncLen(Max(CeilDiv(n - k, s) + 1, 1), d - 1, k, s)

RECURSIVE DecLen(_, _, _, _)
\* second loop of valid_length: depth times (length - 1) * s + k
DecLen(n, d, k, s) ==
    IF d = 0 THEN n ELSE DecLen((n - 1) * s + k, d - 1, k, s)

\* the length before the final division by resample
ExpandedLength(length, depth, kernel_size, stride, resample) ==
    DecLen(EncLen(length * resample, depth, kernel_size, stride),
           depth, kernel_size, stride)

\* variant: the final division rounds down instead of up
valid_length_floor(length, depth, kernel_size, stride, resample) ==
    ExpandedLength(length, depth, kernel_size, stride, resample) \div resample

valid_length(length, depth, kernel_size, stride, resample) ==
    CeilDiv(ExpandedLength(length, depth, kernel_size, stride, resample),
            resample)

\* ------------------------------------------------------------------------
\* Library layers, by their effect on shapes
\* ------------------------------------------------------------------------
Raised == << >>

\* nn.Conv1d(cin, cout, k, s) applied to a shape: a 3-D input is batched,
\* a 2-D input is taken as an unbatched (channels, time) signal; a weight
\* with no output channel is rejected
Conv1dApply(cin, cout, k, s, shape) ==
    IF cout < 1 THEN Raised
    ELSE IF Len(shape) = 3
    THEN IF shape[2] = cin /\ shape[3] >= k
         THEN <<shape[1], cout, ((shape[3] - k) \div s) + 1>>
         ELSE Raised
    ELSE IF Len(shape) = 2
    THEN IF shape[1] = cin /\ shape[2] >= k
         THEN <<cout, ((shape[2] - k) \div s) + 1>>
         ELSE Raised
    ELSE Raised

\* nn.ConvTranspose1d(cin, cout, k, s) applied to a 3-D shape
ConvTranspose1dApply(cin, cout, k, s, shape) ==
    IF Len(shape) = 3 /\ shape[2] = cin
    THEN <<shape[1], cout, (shape[3] - 1) * s + k>>
    ELSE Raised

\* nn.GLU(1) halves the channel axis, nn.ReLU() keeps the shape
ActivationApply(glu, shape) ==
    IF shape = Raised THEN Raised
    ELSE IF glu
    THEN IF shape[2] % 2 = 0 THEN <<shape[1], shape[2] \div 2, shape[3]>>
         ELSE Raised
    ELSE shape

\* torch.flatten(torch.transpose(t, 1, 2), start_dim=1)
TransposeFlatten(shape) ==
    IF Len(shape) = 3 THEN <<shape[1], shape[3] * shape[2]>> ELSE Raised

\* upsample2 of the resample module: the time axis doubles
upsample2(shape) == <<shape[1], shape[2], 2 * shape[3]>>

\* downsample2 of the resample module: an odd time axis is padded by one,
\* then halved
downsample2(shape) ==
    <<shape[1], shape[2], (shape[3] + (shape[3] % 2)) \div 2>>

\* ------------------------------------------------------------------------
\* Constructor arguments and forward inputs that are explored
\* ------------------------------------------------------------------------
\* the end-to-end configuration: chin=1, chout=1, hidden=8, depth=2,
\* kernel_size=4, stride=2, resample=1, n_bits=64, kernel_out=8
Scenario ==
    [chin |-> 1, chout |-> 1, hidden |-> 8, depth |-> 2, kernel_size |-> 4,
     stride |-> 2, causal |-> FALSE, resample |-> 1, growth |-> 2,
     max_hidden |-> 10000, normalize |-> FALSE, glu |-> TRUE,
     rescale |-> TRUE, n_bits |-> 64, kernel_out |-> 8]

\* the defaults of Demucs.__init__
Defaults ==
    [chin |-> 2, chout |-> 2, hidden |-> 64, depth |-> 5, kernel_size |-> 8,
     stride |-> 2, causal |-> FALSE, resample |-> 2, growth |-> 2,
     max_hidden |-> 10000, normalize |-> FALSE, glu |-> TRUE,
     rescale |-> TRUE, n_bits |-> 5120, kernel_out |-> 64]

ResampleArgs == {0, 1, 2, 3, 4}

LenConfigs ==
    {[Scenario EXCEPT !.depth = d, !.kernel_size = k, !.stride = s,
                      !.resample = r] :
        d \in 0..MaxDepth, k \in 1..MaxKernel, s \in 1..MaxStride,
        r \in ResampleArgs}

ChannelConfigs ==
    {[Scenario EXCEPT !.hidden = h, !.growth = g, !.max_hidden = m,
                      !.glu = gl, !.depth = d] :
        h \in 1..MaxHidden, g \in 1..MaxGrowth,
        m \in (1..MaxHiddenCap) \cup {10000},
        gl \in BOOLEAN, d \in 0..MaxDepth}

HeadConfigs ==
    {[c EXCEPT !.chin = ci, !.chout = co, !.normalize = nz, !.causal = ca,
               !.rescale = rs, !.n_bits = nb, !.kernel_out = ko] :
        c \in {Scenario, Defaults}, ci \in 1..2, co \in 1..2,
        nz \in BOOLEAN, ca \in BOOLEAN, rs \in BOOLEAN,
        nb \in {64, 5120}, ko \in {8, 64}}

Configs == LenConfigs \cup ChannelConfigs \cup HeadConfigs

\* time lengths fed to forward: a sweep of short ones, the scenario's 1000
\* and the length the heads are dimensioned for
Lengths == (1..MaxLen) \cup {1000, HeadSpan}

\* a 2-D (batch, time) or a 3-D (batch, channels, time) waveform
Inputs(c) ==
    {<<b, L>> : b \in 1..MaxBatch, L \in Lengths}
    \cup {<<b, c.chin, L>> : b \in 1..MaxBatch, L \in Lengths}

\* ------------------------------------------------------------------------
\* State
\* ------------------------------------------------------------------------
VARIABLES
    cfg,        \* the constructor's arguments (self.depth, self.stride, ...)
    pc,         \* position in __init__ / forward
    err,        \* the exception raised, "" if none
    index,      \* loop variable of the layer loop of __init__
    chin, chout, hidden,   \* locals of __init__, updated per layer
    heads,      \* output_bit, output_bit1, output_bit2 (registered convs)
    encoder,    \* self.encoder
    decoder,    \* self.decoder
    lstm,       \* self.lstm
    rescaled,   \* rescale_module has run
    mix,        \* the argument of forward
    length,     \* local length of forward
    x,          \* local x of forward (its shape)
    skips,      \* local skips of forward
    ei,         \* number of encoder blocks applied
    di,         \* number of decoder blocks applied
    prelen,     \* time length of x before x[..., :length]
    headin,     \* shape the first head was applied to
    v2in,       \* shape output_bit1 was applied to
    pops,       \* history of the skip additions: which encoder stage's skip
                \* each decoder block received, and the two time lengths
    out         \* shape returned by forward

vars == <<cfg, pc, err, index, chin, chout, hidden, heads, encoder, decoder,
          lstm, rescaled, mix, length, x, skips, ei, di, prelen, headin,
          v2in, pops, out>>

ctorVars == <<index, chin, chout, hidden, heads, encoder, decoder, lstm,
              rescaled>>
fwdVars == <<mix, length, x, skips, ei, di, prelen, headin, v2in, pops,
             out>>

Init ==
    /\ cfg \in Configs
    /\ pc = "new"
    /\ err = ""
    /\ index = 0
    /\ chin = cfg.chin
    /\ chout = cfg.chout
    /\ hidden = cfg.hidden
    /\ heads = << >>
    /\ encoder = << >>
    /\ decoder = << >>
    /\ lstm = << >>
    /\ rescaled = FALSE
    /\ mix = << >>
    /\ length = 0
    /\ x = << >>
    /\ skips = << >>
    /\ ei = 0
    /\ di = 0
    /\ prelen = 0
    /\ headin = << >>
    /\ v2in = << >>
    /\ pops = << >>
    /\ out = << >>

\* ------------------------------------------------------------------------
\* Demucs.__init__
\* ------------------------------------------------------------------------
\* variant: a check that forgets the factor 4
ResampleOkNarrow(r) == r \in {1, 2}

\* the test of "if resample not in [1, 2, 4]"
ResampleOk(r) == r \in {1, 2, 4}

\* super().__init__(), the resample check, the attribute assignments and
\* the two empty module lists
CtorCheck ==
    /\ pc = "new"
    /\ IF ~ResampleOk(cfg.resample)
       THEN /\ pc' = "ctor_error"
            /\ err' = "ValueError: Resample should be 1, 2 or 4."
       ELSE /\ pc' = "heads"
            /\ err' = err
    /\ UNCHANGED <<cfg, ctorVars, fwdVars>>

\* factor = 40960 // kernel_out
HeadFactor(kernel_out) == HeadSpan \div kernel_out

\* the three head convolutions, as <<name, cin, cout, kernel, stride>>
HeadConvs(c) ==
    << [name |-> "output_bit", cin |-> c.chout,
        cout |-> c.n_bits \div HeadFactor(c.kernel_out),
        k |-> c.kernel_out, s |-> c.kernel_out],
       [name |-> "output_bit1", cin |-> c.chout, cout |-> c.kernel_out,
        k |-> c.kernel_out, s |-> c.kernel_out],
       [name |-> "output_bit2", cin |-> 1,
        cout |-> c.n_bits \div HeadFactor(c.kernel_out),
        k |-> c.kernel_out, s |-> c.kernel_out] >>

CtorHeads ==
    /\ pc = "heads"
    /\ IF HeadFactor(cfg.kernel_out) = 0
       THEN /\ pc' = "ctor_error"
            /\ err' = "ZeroDivisionError"
            /\ heads' = heads
       ELSE /\ pc' = "layers"
            /\ err' = err
            /\ heads' = HeadConvs(cfg)
    /\ UNCHANGED <<cfg, index, chin, chout, hidden, encoder, decoder, lstm,
                   rescaled, fwdVars>>

\* ch_scale = 2 if glu else 1
ChScale(glu) == IF glu THEN 2 ELSE 1

\* the encoder block built from the current chin and hidden
EncoderBlock(ci, h, c) ==
    [cin |-> ci, conv |-> h, mid |-> h * ChScale(c.glu), glu |-> c.glu,
     k |-> c.kernel_size, s |-> c.stride, stage |-> index]

\* the decoder block built from the current hidden and chout
DecoderBlock(h, co, c) ==
    [cin |-> h, mid |-> ChScale(c.glu) * h, glu |-> c.glu, cout |-> co,
     k |-> c.kernel_size, s |-> c.stride, relu |-> (index > 0),
     stage |-> index]

\* hidden = min(int(growth * hidden), max_hidden)
NextHidden(h, c) == Min(c.growth * h, c.max_hidden)

\* one iteration of "for index in range(depth)"
CtorLayer ==
    /\ pc = "layers"
    /\ index < cfg.depth
    /\ encoder' = Append(encoder, EncoderBlock(chin, hidden, cfg))
    /\ decoder' = <<DecoderBlock(hidden, chout, cfg)>> \o decoder
    /\ chout' = hidden
    /\ chin' = hidden
    /\ hidden' = NextHidden(hidden, cfg)
    /\ index' = index + 1
    /\ UNCHANGED <<cfg, pc, err, heads, lstm, rescaled, fwdVars>>

\* self.lstm = BLSTM(chin, bi=not causal), then the optional rescaling
CtorFinish ==
    /\ pc = "layers"
    /\ index = cfg.depth
    /\ lstm' = <<[dim |-> chin, bi |-> ~cfg.causal]>>
    /\ rescaled' = cfg.rescale
    /\ pc' = "idle"
    /\ UNCHANGED <<cfg, err, index, chin, chout, hidden, heads, encoder,
                   decoder, fwdVars>>

\* ------------------------------------------------------------------------
\* Demucs.forward
\* ------------------------------------------------------------------------
\* mix.unsqueeze(1) when mix.dim() == 2
Unsqueeze1(shape) ==
    IF Len(shape) = 2 THEN <<shape[1], 1, shape[2]>> ELSE Raised

\* the amount of right padding, valid_length(length) - length
PadAmount(n, c) ==
    valid_length(n, c.depth, c.kernel_size, c.stride, c.resample) - n

\* lines 189-200: unsqueeze, normalisation (shape preserving), padding
FwdPad ==
    /\ pc = "idle"
    /\ \E m \in Inputs(cfg) :
         LET m3 == IF Len(m) = 2 THEN Unsqueeze1(m) ELSE m
             n  == m3[3]
         IN /\ mix' = m
            /\ length' = n
            /\ IF n + PadAmount(n, cfg) < 0
               THEN /\ x' = Raised
                    /\ pc' = "raised"
                    /\ err' = "RuntimeError: pad"
               ELSE /\ x' = <<m3[1], m3[2], n + PadAmount(n, cfg)>>
                    /\ pc' = "upsample"
                    /\ err' = err
    /\ UNCHANGED <<cfg, ctorVars, skips, ei, di, prelen, headin, v2in, pops,
                   out>>

\* the upsampling branch on self.resample
Upsampled(shape, r) ==
    IF r = 2 THEN upsample2(shape)
    ELSE IF r = 4 THEN upsample2(upsample2(shape))
    ELSE shape

\* lines 201-206
FwdUpsample ==
    /\ pc = "upsample"
    /\ x' = Upsampled(x, cfg.resample)
    /\ skips' = << >>
    /\ pc' = "encode"
    /\ UNCHANGED <<cfg, err, ctorVars, mix, length, ei, di, prelen, headin,
                   v2in, pops, out>>

\* one encoder block: Conv1d(chin, hidden, k, s), ReLU, Conv1d(hidden,
\* hidden * ch_scale, 1), activation
EncodeApply(blk, shape) ==
    ActivationApply(blk.glu,
        Conv1dApply(blk.conv, blk.mid, 1, 1,
            Conv1dApply(blk.cin, blk.conv, blk.k, blk.s, shape)))

\* one iteration of "for encode in self.encoder"
FwdEncode ==
    /\ pc = "encode"
    /\ ei < Len(encoder)
    /\ LET blk == encoder[ei + 1]
           y   == EncodeApply(blk, x)
       IN IF y = Raised
          THEN /\ pc' = "raised"
               /\ err' = "RuntimeError: shape"
               /\ UNCHANGED <<x, skips, ei>>
          ELSE /\ x' = y
               /\ skips' = Append(skips, [stage |-> blk.stage, shape |-> y])
               /\ ei' = ei + 1
               /\ UNCHANGED <<pc, err>>
    /\ UNCHANGED <<cfg, ctorVars, mix, length, di, prelen, headin, v2in,
                   pops, out>>

\* BLSTM.forward between the two permutes: the channel axis must be the
\* LSTM's input_size; the result has dim channels again
LstmApply(l, shape) ==
    IF Len(shape) = 3 /\ shape[2] = l.dim
    THEN <<shape[1], l.dim, shape[3]>>
    ELSE Raised

\* lines 210-212
FwdLstm ==
    /\ pc = "encode"
    /\ ei = Len(encoder)
    /\ LET y == LstmApply(lstm[1], x)
       IN IF y = Raised
          THEN /\ pc' = "raised"
               /\ err' = "RuntimeError: shape"
               /\ x' = x
          ELSE /\ pc' = "decode"
               /\ err' = err
               /\ x' = y
    /\ UNCHANGED <<cfg, ctorVars, mix, length, skips, ei, di, prelen, headin,
                   v2in, pops, out>>

\* variant: first-in-first-out, skips.pop(0)
SkipPopFirst(s) == 1

\* the position removed by skips.pop(-1)
SkipPopIndex(s) == Len(s)

\* the list without the element at position i
RemoveAt(s, i) == SubSeq(s, 1, i - 1) \o SubSeq(s, i + 1, Len(s))

\* skip[..., :n]
SliceTime(shape, n) == <<shape[1], shape[2], Min(shape[3], n)>>

\* a + b with broadcasting of two 3-D shapes
BroadcastAdd(a, b) ==
    IF \A i \in 1..3 : a[i] = b[i] \/ a[i] = 1 \/ b[i] = 1
    THEN [i \in 1..3 |-> Max(a[i], b[i])]
    ELSE Raised

\* one decoder block: Conv1d(hidden, ch_scale * hidden, 1), activation,
\* ConvTranspose1d(hidden, chout, k, s) and possibly a ReLU
DecodeApply(blk, shape) ==
    ConvTranspose1dApply(blk.cin, blk.cout, blk.k, blk.s,
        ActivationApply(blk.glu, Conv1dApply(blk.cin, blk.mid, 1, 1, shape)))

\* one iteration of "for decode in self.decoder"
FwdDecode ==
    /\ pc = "decode"
    /\ di < Len(decoder)
    /\ IF skips = << >>
       THEN /\ pc' = "raised"
            /\ err' = "IndexError: pop from empty list"
            /\ UNCHANGED <<x, skips, di, pops>>
       ELSE LET blk  == decoder[di + 1]
                i    == SkipPopIndex(skips)
                skip == skips[i]
                sum  == BroadcastAdd(x, SliceTime(skip.shape, x[3]))
                y    == DecodeApply(blk, sum)
            IN /\ skips' = RemoveAt(skips, i)
               /\ pops' = Append(pops, [j |-> di, stage |-> skip.stage,
                                        skiplen |-> skip.shape[3],
                                        xlen |-> x[3], sum |-> sum])
               /\ IF y = Raised
                  THEN /\ pc' = "raised"
                       /\ err' = "RuntimeError: shape"
                       /\ UNCHANGED <<x, di>>
                  ELSE /\ x' = y
                       /\ di' = di + 1
                       /\ UNCHANGED <<pc, err>>
    /\ UNCHANGED <<cfg, ctorVars, mix, length, ei, prelen, headin, v2in, out>>

\* the downsampling branch on self.resample
Downsampled(shape, r) ==
    IF r = 2 THEN downsample2(shape)
    ELSE IF r = 4 THEN downsample2(downsample2(shape))
    ELSE shape

\* lines 217-223: downsampling, then x = x[..., :length]
FwdDownsample ==
    /\ pc = "decode"
    /\ di = Len(decoder)
    /\ LET y == Downsampled(x, cfg.resample)
       IN /\ prelen' = y[3]
          /\ x' = SliceTime(y, length)
    /\ pc' = "head"
    /\ UNCHANGED <<cfg, err, ctorVars, mix, length, skips, ei, di, headin,
                   v2in, pops, out>>

\* lines 227-229: x = flatten(transpose(output_bit(x), 1, 2), start_dim=1)
FwdHead ==
    /\ pc = "head"
    /\ headin' = x
    /\ LET h == heads[1]
           y == TransposeFlatten(Conv1dApply(h.cin, h.cout, h.k, h.s, x))
       IN IF y = Raised
          THEN /\ pc' = "raised"
               /\ err' = "RuntimeError: shape"
               /\ x' = x
          ELSE /\ pc' = "head_v2"
               /\ err' = err
               /\ x' = y
    /\ UNCHANGED <<cfg, ctorVars, mix, length, skips, ei, di, prelen, v2in,
                   pops, out>>

\* std * x: std is 1, or a (batch, 1, 1) tensor when normalize is set
ScaleByStd(shape, normalize) ==
    IF normalize /\ Len(shape) = 2
    THEN BroadcastAdd(<<shape[1], 1, 1>>, <<1, shape[1], shape[2]>>)
    ELSE shape

\* lines 234-241: the v2 head is applied to the current x, then return
FwdHeadV2 ==
    /\ pc = "head_v2"
    /\ v2in' = x
    /\ LET h1 == heads[2]
           h2 == heads[3]
           x1 == Conv1dApply(h1.cin, h1.cout, h1.k, h1.s, x)
           f1 == TransposeFlatten(x1)
           y2 == Conv1dApply(h2.cin, h2.cout, h2.k, h2.s, Unsqueeze1(f1))
           f2 == TransposeFlatten(y2)
       IN IF x1 = Raised
          THEN /\ pc' = "raised"
               /\ err' = "RuntimeError: shape"
               /\ out' = out
          ELSE IF f1 = Raised
          THEN /\ pc' = "raised"
               /\ err' = "IndexError: dimension out of range"
               /\ out' = out
          ELSE IF f2 = Raised
          THEN /\ pc' = "raised"
               /\ err' = "RuntimeError: shape"
               /\ out' = out
          ELSE /\ pc' = "returned"
               /\ err' = err
               /\ out' = ScaleByStd(x, cfg.normalize)
    /\ UNCHANGED <<cfg, ctorVars, mix, length, x, skips, ei, di, prelen,
                   headin, pops>>

Next ==
    \/ CtorCheck
    \/ CtorHeads
    \/ CtorLayer
    \/ CtorFinish
    \/ FwdPad
    \/ FwdUpsample
    \/ FwdEncode
    \/ FwdLstm
    \/ FwdDecode
    \/ FwdDownsample
    \/ FwdHead
    \/ FwdHeadV2

Spec == Init /\ [][Next]_vars

\* ------------------------------------------------------------------------
\* Properties
\* ------------------------------------------------------------------------
\* a forward call has been started
Called == mix # << >>

\* the configured valid length of n
VL(n) == valid_length(n, cfg.depth, cfg.kernel_size, cfg.stride, cfg.resample)

\* the input is one forward accepts: 3-D with chin channels, or 2-D for a
\* mono model, and long enough for one window of the output head
AcceptedInput ==
    Called /\ (Len(mix) = 3 \/ cfg.chin = 1) /\ length >= cfg.kernel_out

\* the input's length is valid_length(n) of one of the explored lengths n
PaddedInput ==
    \E n \in (1..Min(length, MaxLen)) \cup {length} : VL(n) = length

\* the first head has at least one output channel
HeadUsable == cfg.n_bits \div (HeadSpan \div cfg.kernel_out) >= 1

\* the forward call is over, by a return or by an exception
Finished == pc \in {"raised", "returned"}

\* C1: for every accepted input and valid configuration, forward returns a
\* tensor of shape (batch, n_bits)
C1_ReturnsBatchByNBits ==
    (AcceptedInput /\ Finished) =>
        (pc = "returned" /\ out = <<mix[1], cfg.n_bits>>)

\* C2: a waveform whose length is a valid length goes through the whole
\* forward pass without an exception
C2_NoShapeError ==
    (AcceptedInput /\ HeadUsable /\ PaddedInput) => pc # "raised"

\* C3: valid_length(L) >= L, so the right padding of forward is never
\* negative
C3_ValidLengthAtLeastInput ==
    Called => (VL(length) >= length /\ PadAmount(length, cfg) >= 0
               /\ err # "RuntimeError: pad")

C3_Witness ==
    /\ pc = "upsample"
    /\ cfg.resample = 4
    /\ cfg.depth = 2
    /\ PadAmount(length, cfg) > 0
    /\ x[3] = VL(length)

\* C4: the padded length, upsampled, encoded, decoded and downsampled, is
\* the padded length again, before the truncation to the input length
C4_PipelineRestoresPaddedLength ==
    (Called /\ pc \in {"head", "head_v2", "returned"}) => prelen = VL(length)

C4_Witness ==
    /\ pc = "head"
    /\ cfg.resample = 4
    /\ cfg.depth = 2
    /\ cfg.stride = 2
    /\ prelen > length
    /\ prelen = VL(length)

\* C5: valid_length(valid_length(L)) = valid_length(L)
C5_ValidLengthIdempotent ==
    Called => VL(VL(length)) = VL(length)

\* the length a padded length P comes back as: scaled by resample, depth
\* encoder steps, depth transposed-convolution steps, un-scaled
RoundTrip(P) ==
    CeilDiv(DecLen(FloorEncLen(P * cfg.resample, cfg.depth, cfg.kernel_size,
                               cfg.stride),
                   cfg.depth, cfg.kernel_size, cfg.stride),
            cfg.resample)

\* C6: valid_length(L) is the least padded length P >= L whose round trip
\* is at least L
C6_ValidLengthMinimal ==
    Called =>
        /\ RoundTrip(VL(length)) >= length
        /\ \A P \in length..(VL(length) - 1) : RoundTrip(P) < length

\* C7: a resample outside {1, 2, 4} makes the constructor fail before any
\* submodule is created or rescaled, and a resample in {1, 2, 4} never
\* raises that error
C7_ResampleRejectedFirst ==
    /\ cfg.resample \notin {1, 2, 4} => pc \in {"new", "ctor_error"}
    /\ (pc = "ctor_error" /\ cfg.resample \notin {1, 2, 4}) =>
          /\ err = "ValueError: Resample should be 1, 2 or 4."
          /\ heads = << >> /\ encoder = << >> /\ decoder = << >>
          /\ lstm = << >> /\ ~rescaled
    /\ cfg.resample \in {1, 2, 4} =>
          err # "ValueError: Resample should be 1, 2 or 4."

C7_Witness ==
    /\ pc = "ctor_error"
    /\ cfg.resample = 3
    /\ heads = << >>

\* C8: decoder block j adds the skip of encoder stage depth-1-j, the skip is
\* at least as long as the decoder feature map, the sum has the feature
\* map's shape, and no skip is left after the last decoder block
C8_SkipsLifoAndLongEnough ==
    /\ \A i \in 1..Len(pops) :
          /\ pops[i].j = i - 1
          /\ pops[i].stage = cfg.depth - 1 - pops[i].j
          /\ pops[i].skiplen >= pops[i].xlen
          /\ pops[i].sum # Raised
          /\ pops[i].sum[3] = pops[i].xlen
    /\ pc = "decode" => Len(skips) + di = cfg.depth
    /\ pc \in {"head", "head_v2", "returned"} =>
          (skips = << >> /\ Len(pops) = cfg.depth)

C8_Witness ==
    /\ pc = "head"
    /\ cfg.depth = 2
    /\ Len(pops) = 2
    /\ pops[2].stage = 0
    /\ pops[2].skiplen > pops[2].xlen
    /\ skips = << >>

\* output channel width of an encoder block
EncoderWidth(blk) == IF blk.glu THEN blk.mid \div 2 ELSE blk.mid

\* C9: encoder stage i is min(hidden * growth^i, max_hidden) channels wide
\* and the decoder block mirrored to it takes that many channels
C9_ChannelSchedule ==
    /\ \A i \in 1..Len(encoder) :
          EncoderWidth(encoder[i]) =
              Min(cfg.hidden * (cfg.growth ^ (i - 1)), cfg.max_hidden)
    /\ \A i \in 1..Len(encoder), k \in 1..Len(decoder) :
          decoder[k].stage = encoder[i].stage =>
              decoder[k].cin = EncoderWidth(encoder[i])

\* C10: the v2 head is applied to the decoder output that feeds the first
\* head, and forward returns the first head's output
C10_V2HeadOnDecoderOutput ==
    v2in # << >> => (v2in = headin /\ pc = "returned" /\ out = x)

====
